---- MODULE Spec2Model ----
(***************************************************************************)
(* A model of ViagensApp (src/unnamed/part_000): the token claims decoder, *)
(* the role extractor and the trip list / form controller, with the        *)
(* identity provider and the remote API as their environment.              *)
(*                                                                         *)
(* Text is a sequence of one-character strings.  A character outside       *)
(* printable ASCII is written "\t", "\n", "\f", "\r" or "U+<code unit>"    *)
(* (the grave accent, which a TLA+ string cannot hold, is "U+96").         *)
(* A JavaScript value is a record [t, s, a, k]: t its type tag, s the      *)
(* characters of a string (or the lexeme of a number), a the elements of   *)
(* an array (or the property values of an object), k the property names.   *)
(***************************************************************************)
EXTENDS Integers, Sequences, FiniteSets, TLC

VARIABLES
    viagens, loading, error, submitting, deletingId, token,
    origem, destino, descricao, modoTransporte,
    isAuthenticated, isLoading, user,
    tokenCalls, requests, effectDeps,
    server, nextId, last,
    decIn, decOut, exToken, exUser, exOut

uiVars == <<viagens, loading, error, submitting, deletingId, token,
            origem, destino, descricao, modoTransporte>>
formVars == <<origem, destino, descricao, modoTransporte>>
authVars == <<isAuthenticated, isLoading, user>>
envVars == <<tokenCalls, requests, effectDeps, server, nextId>>
fnVars == <<decIn, decOut, exToken, exUser, exOut>>
vars == <<uiVars, authVars, envVars, last, fnVars>>

(***************************************************************************)
(* JavaScript values                                                       *)
(***************************************************************************)
JV(t, s, a, k) == [t |-> t, s |-> s, a |-> a, k |-> k]
JUndefined == JV("undefined", <<>>, <<>>, <<>>)
JNull == JV("null", <<>>, <<>>, <<>>)
JTrue == JV("true", <<>>, <<>>, <<>>)
JFalse == JV("false", <<>>, <<>>, <<>>)
JNum(lexeme) == JV("num", lexeme, <<>>, <<>>)
JStr(chars) == JV("str", chars, <<>>, <<>>)
JArr(elems) == JV("arr", <<>>, elems, <<>>)
JObj(keys, vals) == JV("obj", <<>>, vals, keys)

Digits == {"0", "1", "2", "3", "4", "5", "6", "7", "8", "9"}

\* The mantissa of a number lexeme has no digit other than 0.
NumIsZero(lexeme) ==
    \A i \in 1..Len(lexeme) :
        (\A j \in 1..i : lexeme[j] \notin {"e", "E"}) =>
            lexeme[i] \notin (Digits \ {"0"})

\* ToBoolean: what `!x` and `x && ...` test.
Truthy(v) ==
    CASE v.t \in {"undefined", "null", "false"} -> FALSE
      [] v.t = "num" -> ~NumIsZero(v.s)
      [] v.t = "str" -> v.s # <<>>
      [] OTHER -> TRUE

\* typeof x is not "object": compared by value in a Set.
IsPrimitive(v) == v.t \notin {"arr", "obj"}

(***************************************************************************)
(* Text                                                                    *)
(***************************************************************************)
Ascii ==
    <<" ", "!", "\"", "#", "$", "%", "&", "'", "(", ")", "*", "+", ",", "-",
      ".", "/", "0", "1", "2", "3", "4", "5", "6", "7", "8", "9", ":", ";",
      "<", "=", ">", "?", "@", "A", "B", "C", "D", "E", "F", "G", "H", "I",
      "J", "K", "L", "M", "N", "O", "P", "Q", "R", "S", "T", "U", "V", "W",
      "X", "Y", "Z", "[", "\\", "]", "^", "_", "U+96", "a", "b", "c", "d", "e",
      "f", "g", "h", "i", "j", "k", "l", "m", "n", "o", "p", "q", "r", "s",
      "t", "u", "v", "w", "x", "y", "z", "{", "|", "}", "~">>

\* String.fromCharCode: the character of a UTF-16 code unit.
CharOf(u) ==
    IF u \in 32..126 THEN Ascii[u - 31]
    ELSE IF u = 9 THEN "\t"
    ELSE IF u = 10 THEN "\n"
    ELSE IF u = 12 THEN "\f"
    ELSE IF u = 13 THEN "\r"
    ELSE "U+" \o ToString(u)

\* String.prototype.split with a one-character separator.
SplitAt(s, sep, n) ==
    LET seps == {i \in 1..Len(s) : s[i] = sep}
        before(i) == Cardinality({j \in seps : j < i})
        from == IF n = 1 THEN 0 ELSE CHOOSE i \in seps : before(i) = n - 2
        to == IF n = Cardinality(seps) + 1 THEN Len(s) + 1
              ELSE CHOOSE i \in seps : before(i) = n - 1
    IN  SubSeq(s, from + 1, to - 1)

Split(s, sep) ==
    [n \in 1..(Cardinality({i \in 1..Len(s) : s[i] = sep}) + 1) |-> SplitAt(s, sep, n)]

\* String.prototype.replace(/c/g, d).
ReplaceAll(s, c, d) == [i \in 1..Len(s) |-> IF s[i] = c THEN d ELSE s[i]]

\* String.prototype.trim, for the white space the model's text can hold.
WhiteSpace == {" ", "\t", "\n", "\f", "\r"}

RECURSIVE TrimStart(_)
TrimStart(s) ==
    IF s # <<>> /\ Head(s) \in WhiteSpace THEN TrimStart(Tail(s)) ELSE s

RECURSIVE TrimEnd(_)
TrimEnd(s) ==
    IF s # <<>> /\ s[Len(s)] \in WhiteSpace
    THEN TrimEnd(SubSeq(s, 1, Len(s) - 1))
    ELSE s

Trim(s) == TrimEnd(TrimStart(s))

(***************************************************************************)
(* atob: the forgiving-base64 decode of the HTML standard.  Its result is  *)
(* a binary string, modelled by the sequence of its character codes.       *)
(***************************************************************************)
B64Chars ==
    <<"A", "B", "C", "D", "E", "F", "G", "H", "I", "J", "K", "L", "M", "N",
      "O", "P", "Q", "R", "S", "T", "U", "V", "W", "X", "Y", "Z", "a", "b",
      "c", "d", "e", "f", "g", "h", "i", "j", "k", "l", "m", "n", "o", "p",
      "q", "r", "s", "t", "u", "v", "w", "x", "y", "z", "0", "1", "2", "3",
      "4", "5", "6", "7", "8", "9", "+", "/">>

IsB64Char(c) == \E i \in 1..Len(B64Chars) : B64Chars[i] = c

B64Val(c) == (CHOOSE i \in 1..Len(B64Chars) : B64Chars[i] = c) - 1

NotAsciiWhiteSpace(c) == c \notin WhiteSpace

\* Up to two "=" at the end go when the length is a multiple of four.
StripPadding(s) ==
    IF Len(s) % 4 # 0 \/ Len(s) = 0 THEN s
    ELSE IF s[Len(s)] # "=" THEN s
    ELSE IF s[Len(s) - 1] # "=" THEN SubSeq(s, 1, Len(s) - 1)
    ELSE SubSeq(s, 1, Len(s) - 2)

\* The j-th (from 0) byte of the bit stream of the six-bit values vs; the
\* bits left over at the end are discarded.
B64Byte(vs, j) ==
    LET g == 4 * (j \div 3)
        at(n) == IF g + n <= Len(vs) THEN vs[g + n] ELSE 0
    IN  CASE j % 3 = 0 -> (at(1) * 4) + (at(2) \div 16)
          [] j % 3 = 1 -> ((at(2) % 16) * 16) + (at(3) \div 4)
          [] OTHER -> ((at(3) % 4) * 64) + at(4)

atob(data) ==
    LET stripped == StripPadding(SelectSeq(data, NotAsciiWhiteSpace))
    IN  IF Len(stripped) % 4 = 1
           \/ (\E i \in 1..Len(stripped) : ~IsB64Char(stripped[i]))
        THEN [ok |-> FALSE, bytes |-> <<>>]
        ELSE LET vs == [i \in 1..Len(stripped) |-> B64Val(stripped[i])]
                 n == (Len(vs) * 6) \div 8
             IN  [ok |-> TRUE, bytes |-> [j \in 1..n |-> B64Byte(vs, j - 1)]]

(***************************************************************************)
(* decodeURIComponent of "%xx" for every byte: a strict UTF-8 decode into  *)
(* UTF-16 code units (ECMAScript's Decode), which throws on anything that  *)
(* is not the UTF-8 encoding of a code point.                              *)
(***************************************************************************)
IsContinuation(b) == b \div 64 = 2

\* The bytes of an encoded code point starting at bytes[i]: 0 when bytes[i]
\* cannot start one.
Utf8Width(b) ==
    CASE b < 128 -> 1
      [] b \div 32 = 6 -> 2
      [] b \div 16 = 14 -> 3
      [] b \div 8 = 30 -> 4
      [] OTHER -> 0

\* The code point of the w bytes at i, or -1 when they do not encode one
\* (a byte that is no continuation, an overlong form, a surrogate, a value
\* above 0x10FFFF).
Utf8CodePoint(bytes, i, w) ==
    LET c(n) == bytes[i + n] % 64
        v == CASE w = 1 -> bytes[i]
               [] w = 2 -> ((bytes[i] % 32) * 64) + c(1)
               [] w = 3 -> ((bytes[i] % 16) * 4096) + (c(1) * 64) + c(2)
               [] OTHER -> ((bytes[i] % 8) * 262144) + (c(1) * 4096) + (c(2) * 64) + c(3)
        least == CASE w = 1 -> 0 [] w = 2 -> 128 [] w = 3 -> 2048 [] OTHER -> 65536
    IN  IF (\E n \in 1..(w - 1) : ~IsContinuation(bytes[i + n])) THEN -1
        ELSE IF v < least \/ v > 1114111 \/ v \in 55296..57343 THEN -1
        ELSE v

\* The UTF-16 code units of a code point.
Utf16Units(cp) ==
    IF cp < 65536 THEN <<cp>>
    ELSE <<55296 + ((cp - 65536) \div 1024), 56320 + ((cp - 65536) % 1024)>>

\* The first position from i on where seq has an element that is not in
\* the set, or the position after the end of seq.
FirstOutside(seq, i, set) ==
    LET stops == {k \in i..Len(seq) : seq[k] \notin set}
    IN  IF stops = {} THEN Len(seq) + 1
        ELSE CHOOSE k \in stops : \A m \in stops : k <= m

\* The first position from i on where seq has an element that is in the
\* set, or the position after the end of seq.
FirstIn(seq, i, set) ==
    LET stops == {k \in i..Len(seq) : seq[k] \in set}
    IN  IF stops = {} THEN Len(seq) + 1
        ELSE CHOOSE k \in stops : \A m \in stops : k <= m

\* The decode from byte i on: the run of one-byte characters there, then
\* the character of several bytes that follows it, and so on.
RECURSIVE Utf8DecodeFrom(_, _, _)
Utf8DecodeFrom(bytes, i, acc) ==
    LET n == FirstOutside(bytes, i, 0..127)
        run == acc \o [k \in 1..(n - i) |-> CharOf(bytes[i + k - 1])]
    IN  IF n > Len(bytes) THEN [ok |-> TRUE, chars |-> run]
        ELSE LET w == Utf8Width(bytes[n])
             IN  IF w = 0 \/ n + w - 1 > Len(bytes) THEN [ok |-> FALSE, chars |-> <<>>]
                 ELSE LET cp == Utf8CodePoint(bytes, n, w)
                          us == Utf16Units(cp)
                      IN  IF cp < 0 THEN [ok |-> FALSE, chars |-> <<>>]
                          ELSE Utf8DecodeFrom(bytes, n + w,
                                   run \o [k \in 1..Len(us) |-> CharOf(us[k])])

decodeURIComponent(bytes) == Utf8DecodeFrom(bytes, 1, <<>>)

(***************************************************************************)
(* JSON.parse: a parse of the JSON grammar (ECMA-404).  A result is        *)
(* [ok, v, p]: whether the text parsed, the value, and the position after  *)
(* it.  A number is kept as its lexeme.                                    *)
(***************************************************************************)
JsonWhiteSpace == {" ", "\t", "\n", "\r"}
ControlChars == {CharOf(u) : u \in 0..31}
HexChars ==
    <<"0", "1", "2", "3", "4", "5", "6", "7", "8", "9", "a", "b", "c", "d",
      "e", "f">>
UpperHex == [c \in {"A", "B", "C", "D", "E", "F"} |->
             CASE c = "A" -> "a" [] c = "B" -> "b" [] c = "C" -> "c"
               [] c = "D" -> "d" [] c = "E" -> "e" [] OTHER -> "f"]
IsHex(c) == c \in DOMAIN UpperHex \/ \E i \in 1..Len(HexChars) : HexChars[i] = c
HexVal(c) ==
    LET l == IF c \in DOMAIN UpperHex THEN UpperHex[c] ELSE c
    IN  (CHOOSE i \in 1..Len(HexChars) : HexChars[i] = l) - 1

ParseFail == [ok |-> FALSE, v |-> JNull, p |-> 0]
Parsed(v, p) == [ok |-> TRUE, v |-> v, p |-> p]

SkipWs(s, p) == FirstOutside(s, p, JsonWhiteSpace)

SkipDigits(s, p) == FirstOutside(s, p, Digits)

IsAt(s, p, cs) == p <= Len(s) /\ s[p] \in cs

StartsWith(s, p, lit) ==
    p + Len(lit) - 1 <= Len(s) /\ SubSeq(s, p, p + Len(lit) - 1) = lit

\* The character an escape \e stands for.
EscChar(e) ==
    CASE e = "b" -> CharOf(8)
      [] e = "f" -> "\f"
      [] e = "n" -> "\n"
      [] e = "r" -> "\r"
      [] e = "t" -> "\t"
      [] OTHER -> e

\* The characters that end a run of plain characters in a string.
StringStops == ControlChars \cup {"\"", "\\"}

\* The rest of a string whose opening quote is before position i: the run
\* of plain characters there, then (at n) the closing quote, an escape, or
\* a control character.
RECURSIVE StringFrom(_, _, _)
StringAt(s, n, run) ==
    IF n > Len(s) THEN ParseFail
    ELSE IF s[n] = "\"" THEN Parsed(JStr(run), n + 1)
    ELSE IF s[n] = "\\" THEN
        IF IsAt(s, n + 1, {"\"", "\\", "/", "b", "f", "n", "r", "t"})
        THEN StringFrom(s, n + 2, Append(run, EscChar(s[n + 1])))
        ELSE IF IsAt(s, n + 1, {"u"}) /\ n + 5 <= Len(s)
                /\ (\A k \in 2..5 : IsHex(s[n + k]))
        THEN StringFrom(s, n + 6,
                 Append(run, CharOf((HexVal(s[n + 2]) * 4096)
                                    + (HexVal(s[n + 3]) * 256)
                                    + (HexVal(s[n + 4]) * 16)
                                    + HexVal(s[n + 5]))))
        ELSE ParseFail
    ELSE ParseFail

StringFrom(s, i, acc) ==
    StringAt(s, FirstIn(s, i, StringStops),
             acc \o SubSeq(s, i, FirstIn(s, i, StringStops) - 1))

\* -? (0 | [1-9][0-9]*) (. [0-9]+)? ([eE] [+-]? [0-9]+)?
ParseNumber(s, p) ==
    LET p0 == IF s[p] = "-" THEN p + 1 ELSE p
        p1 == IF IsAt(s, p0, {"0"}) THEN p0 + 1 ELSE SkipDigits(s, p0)
        p2 == IF IsAt(s, p1, {"."}) THEN SkipDigits(s, p1 + 1) ELSE p1
        pe == IF IsAt(s, p2 + 1, {"+", "-"}) THEN p2 + 2 ELSE p2 + 1
        p3 == IF IsAt(s, p2, {"e", "E"}) THEN SkipDigits(s, pe) ELSE p2
    IN  IF p1 = p0 THEN ParseFail
        ELSE IF IsAt(s, p1, {"."}) /\ p2 = p1 + 1 THEN ParseFail
        ELSE IF IsAt(s, p2, {"e", "E"}) /\ p3 = pe THEN ParseFail
        ELSE Parsed(JNum(SubSeq(s, p, p3 - 1)), p3)

\* An object with property key set to val (JSON.parse keeps the last value
\* of a repeated name, at the place of the first).
SetProp(ks, vs, key, val) ==
    IF \E i \in 1..Len(ks) : ks[i] = key
    THEN [ks |-> ks,
          vs |-> [vs EXCEPT ![CHOOSE i \in 1..Len(ks) : ks[i] = key] = val]]
    ELSE [ks |-> Append(ks, key), vs |-> Append(vs, val)]

RECURSIVE ParseValue(_, _)
RECURSIVE Elements(_, _, _)
RECURSIVE Members(_, _, _, _)

\* After the element with parse r: a comma and more elements, or "]".
ElementsAfter(s, r, acc) ==
    IF ~r.ok THEN ParseFail
    ELSE IF IsAt(s, r.p, {","}) THEN Elements(s, r.p + 1, Append(acc, r.v))
    ELSE IF IsAt(s, r.p, {"]"}) THEN Parsed(JArr(Append(acc, r.v)), r.p + 1)
    ELSE ParseFail

\* The elements of an array from position p to its "]".
Elements(s, p, acc) == ElementsAfter(s, ParseValue(s, p), acc)

\* After the member key with value parse vr: a comma and more members, or "}".
MembersAfter(s, key, vr, ks, vs) ==
    IF ~vr.ok THEN ParseFail
    ELSE IF IsAt(s, vr.p, {","})
    THEN Members(s, vr.p + 1, SetProp(ks, vs, key, vr.v).ks, SetProp(ks, vs, key, vr.v).vs)
    ELSE IF IsAt(s, vr.p, {"}"})
    THEN Parsed(JObj(SetProp(ks, vs, key, vr.v).ks, SetProp(ks, vs, key, vr.v).vs), vr.p + 1)
    ELSE ParseFail

\* After the member name with parse kr: white space, ":" and the value.
MemberAfterName(s, kr, ks, vs) ==
    IF kr.ok /\ IsAt(s, SkipWs(s, kr.p), {":"})
    THEN MembersAfter(s, kr.v.s, ParseValue(s, SkipWs(s, kr.p) + 1), ks, vs)
    ELSE ParseFail

\* The members of an object from position p to its "}".
Members(s, p, ks, vs) ==
    IF IsAt(s, SkipWs(s, p), {"\""})
    THEN MemberAfterName(s, StringFrom(s, SkipWs(s, p) + 1, <<>>), ks, vs)
    ELSE ParseFail

\* The value that starts at position q.
ValueAt(s, q) ==
    IF q > Len(s) THEN ParseFail
    ELSE CASE s[q] = "{" ->
                IF IsAt(s, SkipWs(s, q + 1), {"}"})
                THEN Parsed(JObj(<<>>, <<>>), SkipWs(s, q + 1) + 1)
                ELSE Members(s, q + 1, <<>>, <<>>)
           [] s[q] = "[" ->
                IF IsAt(s, SkipWs(s, q + 1), {"]"})
                THEN Parsed(JArr(<<>>), SkipWs(s, q + 1) + 1)
                ELSE Elements(s, q + 1, <<>>)
           [] s[q] = "\"" -> StringFrom(s, q + 1, <<>>)
           [] s[q] \in Digits \cup {"-"} -> ParseNumber(s, q)
           [] StartsWith(s, q, <<"t", "r", "u", "e">>) -> Parsed(JTrue, q + 4)
           [] StartsWith(s, q, <<"f", "a", "l", "s", "e">>) -> Parsed(JFalse, q + 5)
           [] StartsWith(s, q, <<"n", "u", "l", "l">>) -> Parsed(JNull, q + 4)
           [] OTHER -> ParseFail

\* The parse r of a value, with the white space after it.
Trailing(s, r) == IF r.ok THEN Parsed(r.v, SkipWs(s, r.p)) ELSE ParseFail

\* A value with the white space around it.
ParseValue(s, p) == Trailing(s, ValueAt(s, SkipWs(s, p)))

\* The parse r of a text is of all of it.
ParsedAll(text, r) ==
    IF r.ok /\ r.p = Len(text) + 1
    THEN [ok |-> TRUE, v |-> r.v]
    ELSE [ok |-> FALSE, v |-> JNull]

JSONparse(text) == ParsedAll(text, ParseValue(text, 1))

(***************************************************************************)
(* The token claims decoder                                                *)
(***************************************************************************)
Thrown == [thrown |-> TRUE, value |-> JUndefined]
Returned(v) == [thrown |-> FALSE, value |-> v]

\* The try block of decodeJwtPayload: what it returns, or that it threw
\* (token.split of a value that is no string, atob, decodeURIComponent and
\* JSON.parse throw).
decodeJwtPayloadTry(tok) ==
    LET parts == Split(tok.s, ".")
        base64Payload == IF Len(parts) >= 2 THEN JStr(parts[2]) ELSE JUndefined
        normalized == ReplaceAll(ReplaceAll(base64Payload.s, "-", "+"), "_", "/")
        payload == atob(normalized)
        json == decodeURIComponent(payload.bytes)
        parsed == JSONparse(json.chars)
    IN  IF tok.t # "str" THEN Thrown
        ELSE IF ~Truthy(base64Payload) THEN Returned(JNull)
        ELSE IF ~payload.ok THEN Thrown
        ELSE IF ~json.ok THEN Thrown
        ELSE IF ~parsed.ok THEN Thrown
        ELSE Returned(parsed.v)

\* A try block with no catch around it: the exception reaches the caller.
decodeJwtPayloadUncaught(tok) ==
    IF ~Truthy(tok) THEN [raised |-> FALSE, value |-> JNull]
    ELSE LET r == decodeJwtPayloadTry(tok)
         IN  [raised |-> r.thrown, value |-> IF r.thrown THEN JUndefined ELSE r.value]

\* [raised, value]: whether the call raised to its caller, and what it returned.
decodeJwtPayload(tok) ==
    IF ~Truthy(tok) THEN [raised |-> FALSE, value |-> JNull]
    ELSE LET r == decodeJwtPayloadTry(tok)
         IN  IF r.thrown
             THEN [raised |-> FALSE, value |-> JNull]
             ELSE [raised |-> FALSE, value |-> r.value]

(***************************************************************************)
(* The role extractor                                                      *)
(***************************************************************************)
ROLE_NAMESPACE ==
    <<"h", "t", "t", "p", "s", ":", "/", "/", "d", "e", "v", "-", "h", "b",
      "5", "t", "n", "b", "k", "u", "y", "k", "2", "1", "7", "l", "t", "2",
      ".", "u", "s", ".", "a", "u", "t", "h", "0", ".", "c", "o", "m", "/",
      "r", "o", "l", "e", "s">>

ROLE_CLAIM_KEYS ==
    <<ROLE_NAMESPACE,
      <<"h", "t", "t", "p", "s", ":", "/", "/", "s", "c", "h", "e", "m", "a",
        "s", ".", "a", "u", "t", "h", "0", ".", "c", "o", "m", "/", "r", "o",
        "l", "e", "s">>,
      <<"r", "o", "l", "e", "s">>>>

ADMIN_ROLE == <<"a", "d", "m", "i", "n">>

\* source[key], for a key that no prototype defines.
GetProp(source, key) ==
    IF source.t = "obj" /\ \E i \in 1..Len(source.k) : source.k[i] = key
    THEN source.a[CHOOSE i \in 1..Len(source.k) : source.k[i] = key]
    ELSE JUndefined

\* ROLE_CLAIM_KEYS.slice(n - 1).flatMap(...)
RECURSIVE FlatMapKeys(_, _)
FlatMapKeys(source, n) ==
    IF n > Len(ROLE_CLAIM_KEYS) THEN <<>>
    ELSE LET value == GetProp(source, ROLE_CLAIM_KEYS[n])
         IN  (IF value.t = "arr" THEN value.a ELSE <<>>) \o FlatMapKeys(source, n + 1)

\* The first recognised key alone, in place of all of them.
extractRolesFirstKey(source) ==
    IF ~Truthy(source) THEN <<>>
    ELSE LET value == GetProp(source, ROLE_CLAIM_KEYS[1])
         IN  IF value.t = "arr" THEN value.a ELSE <<>>

extractRolesFromSource(source) ==
    IF ~Truthy(source) THEN <<>> ELSE FlatMapKeys(source, 1)

\* new Set(items): the items in insertion order, a primitive kept once
\* (SameValueZero); two objects are never the same value.
RECURSIVE NewSetFrom(_, _, _)
NewSetFrom(items, i, acc) ==
    IF i > Len(items) THEN acc
    ELSE IF IsPrimitive(items[i]) /\ \E j \in 1..Len(acc) : acc[j] = items[i]
    THEN NewSetFrom(items, i + 1, acc)
    ELSE NewSetFrom(items, i + 1, Append(acc, items[i]))

NewSet(items) == NewSetFrom(items, 1, <<>>)

\* Set.prototype.has, of a primitive.
SetHas(set, v) == \E i \in 1..Len(set) : set[i] = v

\* The roles of the token alone, the profile left out.
rolesOfTokenOnly(decoded, profile) == NewSet(extractRolesFromSource(decoded))

\* The roles memo of the component, for a decoded payload and a profile.
rolesOf(decoded, profile) ==
    LET fromToken == extractRolesFromSource(decoded)
        fromUser == extractRolesFromSource(profile)
    IN  NewSet(fromToken \o fromUser)

(***************************************************************************)
(* Bounds of the model                                                     *)
(***************************************************************************)
\* Trips the remote API holds when the page loads.
InitialTrips == 2
\* The largest identifier the remote API assigns.
MaxId == 3
\* HTTP requests in flight at once.
MaxRequests == 2
\* getAccessTokenSilently calls outstanding at once.
MaxTokenCalls == 2

(***************************************************************************)
(* The environment: the identity provider and the remote API               *)
(***************************************************************************)
Ids == 1..MaxId
Trip(id) == [id |-> id]

\* useState(null) of deletingId: no identifier.
NullId == 0

\* Access tokens the identity provider hands out: one whose payload is
\* {"roles":["admin"]} and one whose payload is {"roles":["user"]}.
AdminToken ==
    <<"h", ".", "e", "y", "J", "y", "b", "2", "x", "l", "c", "y", "I", "6",
      "W", "y", "J", "h", "Z", "G", "1", "p", "b", "i", "J", "d", "f", "Q",
      ".", "s">>
UserToken ==
    <<"h", ".", "e", "y", "J", "y", "b", "2", "x", "l", "c", "y", "I", "6",
      "W", "y", "J", "1", "c", "2", "V", "y", "I", "l", "1", "9", ".", "s">>
Tokens == {AdminToken, UserToken}

\* Profiles the identity provider reports: one with no role claim and one
\* with the administrator role under the namespaced claim.
PlainUser == JObj(<< <<"n", "a", "m", "e">> >>, <<JStr(<<"A", "n", "a">>)>>)
AdminUser ==
    JObj(<< <<"n", "a", "m", "e">>, ROLE_NAMESPACE >>,
         <<JStr(<<"A", "n", "a">>), JArr(<<JStr(ADMIN_ROLE)>>)>>)
Users == {PlainUser, AdminUser}

\* What the user types into the form.
OrigemValues == {<<>>, <<" ">>, <<"a", " ">>}
DestinoValues == {<<>>, <<"b">>}
DescricaoValues == {<<>>, <<" ">>, <<" ", "d">>}
ModoValues == {<<>>, <<"c">>}

\* Response bodies: a JSON array of trips, a JSON object that is no array,
\* the JSON object of one trip, text that is not JSON.
ArrayBody(items) == [kind |-> "array", items |-> items, text |-> ""]
ObjectBody == [kind |-> "object", items |-> <<>>, text |-> ""]
RecordBody(trip) == [kind |-> "record", items |-> <<trip>>, text |-> ""]
TextBody(text) == [kind |-> "text", items |-> <<>>, text |-> text]
IsJson(body) == body.kind \in {"array", "object", "record"}

FailStatuses == {403, 500}
ErrorTexts == {"Forbidden"}

\* Response.ok
ResOk(status) == status \in 200..299

\* A response: whether fetch resolved (net), and then its status and body.
NoResponse == [done |-> FALSE, net |-> FALSE, status |-> 0, body |-> TextBody("")]
Response(status, body) == [done |-> TRUE, net |-> TRUE, status |-> status, body |-> body]
NetworkError == [done |-> TRUE, net |-> FALSE, status |-> 0, body |-> TextBody("")]

\* The body of a POST: the dto of handleCreate.
NoDto == [origemNome |-> <<>>, destinoNome |-> <<>>, descricao |-> JNull,
          modoTransporte |-> <<>>]

\* A request in flight: its method and target, its bearer token and body,
\* and the response once the remote API has produced one.
Request(kind, bearer, id, dto) ==
    [kind |-> kind, bearer |-> bearer, id |-> id, dto |-> dto, resp |-> NoResponse]

RemoveAt(seq, i) == SubSeq(seq, 1, i - 1) \o SubSeq(seq, i + 1, Len(seq))

(***************************************************************************)
(* Error messages: a message is the sequence of the parts its template     *)
(* literal joins; error is null or a message.                              *)
(***************************************************************************)
ErrorNull == [isNull |-> TRUE, text |-> <<>>]
Message(parts) == [isNull |-> FALSE, text |-> parts]
Contains(message, part) ==
    ~message.isNull /\ \E i \in 1..Len(message.text) : message.text[i] = part

TokenErrorMessage == Message(<<"Não foi possível recuperar o token de acesso.">>)
ValidationMessage ==
    Message(<<"Origem, destino e modo de transporte são obrigatórios.">>)
LoadErrorMessage(status) == Message(<<"Erro ao carregar: ", ToString(status)>>)
CreateErrorMessage(status, text) ==
    Message(<<"Erro ao criar: ", ToString(status), " ", text>>)
DeleteErrorMessage(status, text) ==
    Message(<<"Erro ao excluir: ", ToString(status), " ", text>>)
\* err.message of what fetch rejects with, and of what res.json() rejects with.
FetchErrorMessage == Message(<<"Failed to fetch">>)
JsonErrorMessage == Message(<<"Unexpected token">>)

(***************************************************************************)
(* The component: derived values and what it renders                       *)
(***************************************************************************)
\* useMemo(() => decodeJwtPayload(token), [token]): the decoded payload of
\* each value the token takes.
DecodedPayload == [t \in Tokens \cup {<<>>} |-> decodeJwtPayload(JStr(t)).value]
payload == DecodedPayload[token]
roles == rolesOf(payload, user)
isAdmin == SetHas(roles, JStr(ADMIN_ROLE))

\* Which of the three returns of the component renders.
View ==
    IF isLoading THEN "auth-loading"
    ELSE IF ~isAuthenticated THEN "login"
    ELSE "app"

AdminPillShown == View = "app" /\ isAdmin
TableShown == View = "app" /\ ~loading /\ Len(viagens) # 0
ActionsColumnShown == TableShown /\ isAdmin
DeleteControlShown(i) == TableShown /\ i \in 1..Len(viagens) /\ isAdmin
DeleteControlDisabled(i) == deletingId = viagens[i].id
RefreshDisabled == loading
SubmitDisabled == submitting

\* The dependencies of the effect differ from those of its last run.
EffectPending ==
    \/ ~effectDeps.ran
    \/ effectDeps.isAuthenticated # isAuthenticated
    \/ effectDeps.token # token

\* How a response ends the try block that awaited it: fetch rejected, the
\* status was a failure, or the kind of body a success status came with.
Outcome(res) ==
    IF ~res.net THEN "rejected"
    ELSE IF ~ResOk(res.status) THEN "status"
    ELSE res.body.kind

\* What the last step did: the operation, the identifier it was about, and
\* how it came out.
Last(op, id, out) == [op |-> op, id |-> id, out |-> out]

InitFn ==
    /\ decIn = JUndefined
    /\ decOut = [done |-> FALSE, raised |-> FALSE, value |-> JUndefined]
    /\ exToken = JUndefined
    /\ exUser = JUndefined
    /\ exOut = [done |-> FALSE, set |-> <<>>, swapped |-> <<>>]

InitApp ==
    /\ viagens = <<>>
    /\ loading = FALSE
    /\ error = ErrorNull
    /\ submitting = FALSE
    /\ deletingId = NullId
    /\ token = <<>>
    /\ origem = <<>>
    /\ destino = <<>>
    /\ descricao = <<>>
    /\ modoTransporte = <<>>
    /\ isAuthenticated = FALSE
    /\ isLoading = TRUE
    /\ user = JUndefined
    /\ tokenCalls = <<>>
    /\ requests = <<>>
    /\ effectDeps = [ran |-> FALSE, isAuthenticated |-> FALSE, token |-> <<>>]
    /\ server = [i \in 1..InitialTrips |-> Trip(i)]
    /\ nextId = InitialTrips + 1
    /\ last = Last("init", NullId, "")

Init == InitApp /\ InitFn

(***************************************************************************)
(* The identity provider: useAuth0 reports its status and the profile.     *)
(***************************************************************************)
AuthInitialised(u) ==
    /\ isLoading
    /\ isLoading' = FALSE
    /\ isAuthenticated' = (u # JUndefined)
    /\ user' = u
    /\ last' = Last("auth", NullId, "")
    /\ UNCHANGED <<uiVars, envVars, fnVars>>

Login(u) ==
    /\ ~isLoading /\ ~isAuthenticated
    /\ isAuthenticated' = TRUE
    /\ user' = u
    /\ last' = Last("auth", NullId, "")
    /\ UNCHANGED <<isLoading, uiVars, envVars, fnVars>>

Logout ==
    /\ ~isLoading /\ isAuthenticated
    /\ isAuthenticated' = FALSE
    /\ user' = JUndefined
    /\ last' = Last("auth", NullId, "")
    /\ UNCHANGED <<isLoading, uiVars, envVars, fnVars>>

(***************************************************************************)
(* fetchViagens, refreshToken and the effect that loads on authentication  *)
(***************************************************************************)
\* fetchViagens with every call sent, whatever the token.
fetchViagensUnguarded(providedToken) ==
    LET activeToken ==
            IF providedToken.t \in {"undefined", "null"} THEN JStr(token)
            ELSE providedToken
    IN  /\ Len(requests) < MaxRequests
        /\ loading' = TRUE
        /\ error' = ErrorNull
        /\ requests' = Append(requests, Request("list", activeToken.s, NullId, NoDto))

\* fetchViagens up to its await of fetch: loading, error and the request.
fetchViagens(providedToken) ==
    LET activeToken ==
            IF providedToken.t \in {"undefined", "null"} THEN JStr(token)
            ELSE providedToken
    IN  IF ~Truthy(activeToken) THEN UNCHANGED <<loading, error, requests>>
        ELSE /\ Len(requests) < MaxRequests
             /\ loading' = TRUE
             /\ error' = ErrorNull
             /\ requests' = Append(requests, Request("list", activeToken.s, NullId, NoDto))

\* The effect runs after a render whose dependencies changed: the cleanup of
\* its last run cancels that run's load, then it resets the view or starts
\* a load with a call of refreshToken.
RunEffect ==
    /\ EffectPending
    /\ isAuthenticated => Len(tokenCalls) < MaxTokenCalls
    /\ LET cleaned == [i \in 1..Len(tokenCalls) |-> [cancelled |-> TRUE]]
       IN  IF ~isAuthenticated
           THEN /\ token' = <<>>
                /\ viagens' = <<>>
                /\ tokenCalls' = cleaned
           ELSE /\ tokenCalls' = Append(cleaned, [cancelled |-> FALSE])
                /\ UNCHANGED <<token, viagens>>
    /\ effectDeps' = [ran |-> TRUE, isAuthenticated |-> isAuthenticated, token |-> token]
    /\ last' = Last("effect", NullId, "")
    /\ UNCHANGED <<loading, error, submitting, deletingId, formVars, authVars,
                   requests, server, nextId, fnVars>>

\* getAccessTokenSilently resolves with accessToken: refreshToken sets the
\* token and returns it, and the load that awaited it calls fetchViagens
\* unless it was cancelled.
TokenResolved(i, accessToken) ==
    /\ i \in 1..Len(tokenCalls)
    /\ token' = accessToken
    /\ IF ~tokenCalls[i].cancelled /\ Truthy(JStr(accessToken))
       THEN fetchViagens(JStr(accessToken))
       ELSE UNCHANGED <<loading, error, requests>>
    /\ tokenCalls' = RemoveAt(tokenCalls, i)
    /\ last' = Last("refreshToken", NullId, "resolved")
    /\ UNCHANGED <<viagens, submitting, deletingId, formVars, authVars,
                   effectDeps, server, nextId, fnVars>>

\* refreshToken that forgets the token it held when the retrieval fails.
TokenRejectedClearing(i) ==
    /\ i \in 1..Len(tokenCalls)
    /\ error' = TokenErrorMessage
    /\ token' = <<>>
    /\ tokenCalls' = RemoveAt(tokenCalls, i)
    /\ last' = Last("refreshToken", NullId, "rejected")
    /\ UNCHANGED <<viagens, loading, submitting, deletingId, formVars,
                   authVars, requests, effectDeps, server, nextId, fnVars>>

\* getAccessTokenSilently rejects: refreshToken sets the error and returns
\* "", and the load ends there.
TokenRejected(i) ==
    /\ i \in 1..Len(tokenCalls)
    /\ error' = TokenErrorMessage
    /\ tokenCalls' = RemoveAt(tokenCalls, i)
    /\ last' = Last("refreshToken", NullId, "rejected")
    /\ UNCHANGED <<viagens, loading, submitting, deletingId, token, formVars,
                   authVars, requests, effectDeps, server, nextId, fnVars>>

\* fetchViagens that leaves the list as it is when the response is no array.
fetchViagensDoneKeeping(i) ==
    LET res == requests[i].resp
    IN  /\ i \in 1..Len(requests)
        /\ requests[i].kind = "list" /\ res.done
        /\ error' = IF ~res.net THEN FetchErrorMessage
                    ELSE IF ~ResOk(res.status) THEN LoadErrorMessage(res.status)
                    ELSE IF ~IsJson(res.body) THEN JsonErrorMessage
                    ELSE error
        /\ viagens' = IF Outcome(res) = "array" THEN res.body.items ELSE viagens
        /\ loading' = FALSE
        /\ requests' = RemoveAt(requests, i)
        /\ last' = Last("fetchViagens.done", NullId, Outcome(res))
        /\ UNCHANGED <<submitting, deletingId, token, formVars, authVars,
                       tokenCalls, effectDeps, server, nextId, fnVars>>

\* fetchViagens after its await: the response of list request i.
fetchViagensDone(i) ==
    LET res == requests[i].resp
    IN  /\ i \in 1..Len(requests)
        /\ requests[i].kind = "list" /\ res.done
        /\ IF ~res.net
           THEN error' = FetchErrorMessage /\ UNCHANGED viagens
           ELSE IF ~ResOk(res.status)
           THEN error' = LoadErrorMessage(res.status) /\ UNCHANGED viagens
           ELSE IF ~IsJson(res.body)
           THEN error' = JsonErrorMessage /\ UNCHANGED viagens
           ELSE /\ viagens' = IF res.body.kind = "array" THEN res.body.items ELSE <<>>
                /\ UNCHANGED error
        /\ loading' = FALSE
        /\ requests' = RemoveAt(requests, i)
        /\ last' = Last("fetchViagens.done", NullId, Outcome(res))
        /\ UNCHANGED <<submitting, deletingId, token, formVars, authVars,
                       tokenCalls, effectDeps, server, nextId, fnVars>>

\* The button "Recarregar".
ClickRefresh ==
    /\ View = "app" /\ ~EffectPending
    /\ ~RefreshDisabled
    /\ fetchViagens(JUndefined)
    /\ last' = Last("refresh", NullId, "")
    /\ UNCHANGED <<viagens, submitting, deletingId, token, formVars, authVars,
                   tokenCalls, effectDeps, server, nextId, fnVars>>

(***************************************************************************)
(* The form and handleCreate                                               *)
(***************************************************************************)
\* onChange of the four inputs.
ChangeField ==
    /\ View = "app" /\ ~EffectPending
    /\ \/ \E v \in OrigemValues : origem' = v /\ UNCHANGED <<destino, descricao, modoTransporte>>
       \/ \E v \in DestinoValues : destino' = v /\ UNCHANGED <<origem, descricao, modoTransporte>>
       \/ \E v \in DescricaoValues : descricao' = v /\ UNCHANGED <<origem, destino, modoTransporte>>
       \/ \E v \in ModoValues : modoTransporte' = v /\ UNCHANGED <<origem, destino, descricao>>
    /\ last' = Last("change", NullId, "")
    /\ UNCHANGED <<viagens, loading, error, submitting, deletingId, token,
                   authVars, envVars, fnVars>>

\* x.trim() || null
TrimOrNull(s) == IF Trim(s) # <<>> THEN JStr(Trim(s)) ELSE JNull

\* handleCreate with no check of the required fields.
handleCreateUnchecked ==
    /\ Len(requests) < MaxRequests
    /\ submitting' = TRUE
    /\ error' = ErrorNull
    /\ requests' = Append(requests,
           Request("create", token, NullId,
                   [origemNome |-> Trim(origem),
                    destinoNome |-> Trim(destino),
                    descricao |-> TrimOrNull(descricao),
                    modoTransporte |-> Trim(modoTransporte)]))
    /\ last' = Last("handleCreate", NullId, "")
    /\ UNCHANGED <<viagens, loading, deletingId, token, formVars, authVars,
                   tokenCalls, effectDeps, server, nextId, fnVars>>

\* handleCreate up to its await of fetch.
handleCreate ==
    /\ IF origem = <<>> \/ destino = <<>> \/ modoTransporte = <<>>
       THEN /\ error' = ValidationMessage
            /\ UNCHANGED <<submitting, requests>>
       ELSE /\ Len(requests) < MaxRequests
            /\ submitting' = TRUE
            /\ error' = ErrorNull
            /\ requests' = Append(requests,
                   Request("create", token, NullId,
                           [origemNome |-> Trim(origem),
                            destinoNome |-> Trim(destino),
                            descricao |-> TrimOrNull(descricao),
                            modoTransporte |-> Trim(modoTransporte)]))
    /\ last' = Last("handleCreate", NullId, "")
    /\ UNCHANGED <<viagens, loading, deletingId, token, formVars, authVars,
                   tokenCalls, effectDeps, server, nextId, fnVars>>

\* The form is submitted (its button is disabled while submitting).
SubmitForm ==
    /\ View = "app" /\ ~EffectPending
    /\ ~SubmitDisabled
    /\ handleCreate

\* handleCreate on a failure that clears the form as a success does.
handleCreateDoneClearing(i) ==
    LET res == requests[i].resp
    IN  /\ i \in 1..Len(requests)
        /\ requests[i].kind = "create" /\ res.done
        /\ error' = IF ~res.net THEN FetchErrorMessage
                    ELSE IF ~ResOk(res.status)
                    THEN CreateErrorMessage(res.status, res.body.text)
                    ELSE IF ~IsJson(res.body) THEN JsonErrorMessage
                    ELSE error
        /\ viagens' = IF res.net /\ ResOk(res.status) /\ IsJson(res.body)
                      THEN res.body.items \o viagens ELSE viagens
        /\ origem' = <<>> /\ destino' = <<>> /\ descricao' = <<>>
        /\ modoTransporte' = <<>>
        /\ submitting' = FALSE
        /\ requests' = RemoveAt(requests, i)
        /\ last' = Last("handleCreate.done", NullId, Outcome(res))
        /\ UNCHANGED <<loading, deletingId, token, authVars, tokenCalls,
                       effectDeps, server, nextId, fnVars>>

\* handleCreate that puts the created record after the others.
handleCreateDoneAppending(i) ==
    LET res == requests[i].resp
    IN  /\ i \in 1..Len(requests)
        /\ requests[i].kind = "create" /\ res.done
        /\ IF Outcome(res) \in {"rejected", "status", "text"}
           THEN /\ error' = IF ~res.net THEN FetchErrorMessage
                             ELSE IF ~ResOk(res.status)
                             THEN CreateErrorMessage(res.status, res.body.text)
                             ELSE JsonErrorMessage
                /\ UNCHANGED <<viagens, formVars>>
           ELSE /\ viagens' = viagens \o res.body.items
                /\ origem' = <<>>
                /\ destino' = <<>>
                /\ descricao' = <<>>
                /\ modoTransporte' = <<>>
                /\ UNCHANGED error
        /\ submitting' = FALSE
        /\ requests' = RemoveAt(requests, i)
        /\ last' = Last("handleCreate.done", NullId, Outcome(res))
        /\ UNCHANGED <<loading, deletingId, token, authVars, tokenCalls,
                       effectDeps, server, nextId, fnVars>>

\* handleCreate after its await: the response of create request i.
handleCreateDone(i) ==
    LET res == requests[i].resp
    IN  /\ i \in 1..Len(requests)
        /\ requests[i].kind = "create" /\ res.done
        /\ IF ~res.net
           THEN error' = FetchErrorMessage /\ UNCHANGED <<viagens, formVars>>
           ELSE IF ~ResOk(res.status)
           THEN /\ error' = CreateErrorMessage(res.status, res.body.text)
                /\ UNCHANGED <<viagens, formVars>>
           ELSE IF ~IsJson(res.body)
           THEN error' = JsonErrorMessage /\ UNCHANGED <<viagens, formVars>>
           ELSE /\ viagens' = res.body.items \o viagens
                /\ origem' = <<>>
                /\ destino' = <<>>
                /\ descricao' = <<>>
                /\ modoTransporte' = <<>>
                /\ UNCHANGED error
        /\ submitting' = FALSE
        /\ requests' = RemoveAt(requests, i)
        /\ last' = Last("handleCreate.done", NullId, Outcome(res))
        /\ UNCHANGED <<loading, deletingId, token, authVars, tokenCalls,
                       effectDeps, server, nextId, fnVars>>

(***************************************************************************)
(* handleDelete                                                            *)
(***************************************************************************)
\* handleDelete with no check of the role.
handleDeleteUngated(id) ==
    /\ Len(requests) < MaxRequests
    /\ error' = ErrorNull
    /\ deletingId' = id
    /\ requests' = Append(requests, Request("delete", token, id, NoDto))
    /\ last' = Last("handleDelete", id, "")
    /\ UNCHANGED <<viagens, loading, submitting, token, formVars, authVars,
                   tokenCalls, effectDeps, server, nextId, fnVars>>

\* handleDelete up to its await of fetch.
handleDelete(id) ==
    /\ IF ~isAdmin
       THEN UNCHANGED <<error, deletingId, requests>>
       ELSE /\ Len(requests) < MaxRequests
            /\ error' = ErrorNull
            /\ deletingId' = id
            /\ requests' = Append(requests, Request("delete", token, id, NoDto))
    /\ last' = Last("handleDelete", id, "")
    /\ UNCHANGED <<viagens, loading, submitting, token, formVars, authVars,
                   tokenCalls, effectDeps, server, nextId, fnVars>>

\* The button "Excluir" of row i.
ClickDelete(i) ==
    /\ ~EffectPending
    /\ DeleteControlShown(i)
    /\ ~DeleteControlDisabled(i)
    /\ handleDelete(viagens[i].id)

\* handleDelete called by a caller other than the button of a row.
CallHandleDelete(id) ==
    /\ View = "app" /\ ~EffectPending
    /\ handleDelete(id)

\* prev.filter((viagem) => viagem.id !== id)
RECURSIVE WithoutId(_, _)
WithoutId(list, id) ==
    IF list = <<>> THEN <<>>
    ELSE IF Head(list).id # id THEN <<Head(list)>> \o WithoutId(Tail(list), id)
    ELSE WithoutId(Tail(list), id)

\* handleDelete on a failure that removes the record as a success does.
handleDeleteDoneRemoving(i) ==
    LET res == requests[i].resp
    IN  /\ i \in 1..Len(requests)
        /\ requests[i].kind = "delete" /\ res.done
        /\ error' = IF ~res.net THEN FetchErrorMessage
                    ELSE IF ~ResOk(res.status)
                    THEN DeleteErrorMessage(res.status, res.body.text)
                    ELSE error
        /\ viagens' = WithoutId(viagens, requests[i].id)
        /\ deletingId' = NullId
        /\ requests' = RemoveAt(requests, i)
        /\ last' = Last("handleDelete.done", requests[i].id, Outcome(res))
        /\ UNCHANGED <<loading, submitting, token, formVars, authVars,
                       tokenCalls, effectDeps, server, nextId, fnVars>>

\* handleDelete that on a success drops the first row, whatever its id.
handleDeleteDoneDroppingFirst(i) ==
    LET res == requests[i].resp
    IN  /\ i \in 1..Len(requests)
        /\ requests[i].kind = "delete" /\ res.done
        /\ error' = IF ~res.net THEN FetchErrorMessage
                    ELSE IF ~ResOk(res.status)
                    THEN DeleteErrorMessage(res.status, res.body.text)
                    ELSE error
        /\ viagens' = IF res.net /\ ResOk(res.status) /\ viagens # <<>>
                      THEN Tail(viagens) ELSE viagens
        /\ deletingId' = NullId
        /\ requests' = RemoveAt(requests, i)
        /\ last' = Last("handleDelete.done", requests[i].id, Outcome(res))
        /\ UNCHANGED <<loading, submitting, token, formVars, authVars,
                       tokenCalls, effectDeps, server, nextId, fnVars>>

\* handleDelete after its await: the response of delete request i.
handleDeleteDone(i) ==
    LET res == requests[i].resp
    IN  /\ i \in 1..Len(requests)
        /\ requests[i].kind = "delete" /\ res.done
        /\ IF ~res.net
           THEN error' = FetchErrorMessage /\ UNCHANGED viagens
           ELSE IF ~ResOk(res.status)
           THEN /\ error' = DeleteErrorMessage(res.status, res.body.text)
                /\ UNCHANGED viagens
           ELSE /\ viagens' = WithoutId(viagens, requests[i].id)
                /\ UNCHANGED error
        /\ deletingId' = NullId
        /\ requests' = RemoveAt(requests, i)
        /\ last' = Last("handleDelete.done", requests[i].id, Outcome(res))
        /\ UNCHANGED <<loading, submitting, token, formVars, authVars,
                       tokenCalls, effectDeps, server, nextId, fnVars>>

(***************************************************************************)
(* The remote API answers the request at position i                        *)
(***************************************************************************)
Answer(i, response) ==
    /\ requests' = [requests EXCEPT ![i].resp = response]
    /\ last' = Last("api", NullId, "")
    /\ UNCHANGED <<uiVars, authVars, tokenCalls, effectDeps, fnVars>>

Unanswered(i, kinds) ==
    i \in 1..Len(requests) /\ requests[i].kind \in kinds /\ ~requests[i].resp.done

\* GET /viagens: the collection as a JSON array, or JSON that is no array.
ServeList(i) ==
    /\ Unanswered(i, {"list"})
    /\ \E body \in {ArrayBody(server), ObjectBody} : Answer(i, Response(200, body))
    /\ UNCHANGED <<server, nextId>>

\* GET /viagens answered with the collection as it is, and nothing else.
ServeCollection(i) ==
    /\ Unanswered(i, {"list"})
    /\ Answer(i, Response(200, ArrayBody(server)))
    /\ UNCHANGED <<server, nextId>>

\* POST /viagens: the trip is created and returned.
ServeCreate(i) ==
    /\ Unanswered(i, {"create"})
    /\ nextId <= MaxId
    /\ server' = Append(server, Trip(nextId))
    /\ nextId' = nextId + 1
    /\ Answer(i, Response(201, RecordBody(Trip(nextId))))

\* DELETE /viagens/{id}: the trip is removed.
ServeDelete(i) ==
    /\ Unanswered(i, {"delete"})
    /\ server' = WithoutId(server, requests[i].id)
    /\ UNCHANGED nextId
    /\ Answer(i, Response(204, TextBody("")))

\* A success status with a body that is not JSON.
ServeGarbled(i) ==
    /\ Unanswered(i, {"list", "create"})
    /\ Answer(i, Response(200, TextBody("<html>")))
    /\ UNCHANGED <<server, nextId>>

\* The request is refused with a failure status and a text body.
ServeFailure(i) ==
    /\ Unanswered(i, {"list", "create", "delete"})
    /\ \E status \in FailStatuses, text \in ErrorTexts :
           Answer(i, Response(status, TextBody(text)))
    /\ UNCHANGED <<server, nextId>>

\* fetch rejects: the request never got an answer.
FetchRejects(i) ==
    /\ Unanswered(i, {"list", "create", "delete"})
    /\ Answer(i, NetworkError)
    /\ UNCHANGED <<server, nextId>>

(***************************************************************************)
(* The specifications                                                      *)
(***************************************************************************)
Slots == 1..MaxRequests

\* The identity provider, the effect and the load of the list.
Loading ==
    \/ \E u \in Users \cup {JUndefined} : AuthInitialised(u)
    \/ RunEffect
    \/ \E i \in 1..MaxTokenCalls, t \in Tokens : TokenResolved(i, t)
    \/ \E i \in 1..MaxTokenCalls : TokenRejected(i)
    \/ \E i \in Slots : fetchViagensDone(i)
    \/ \E i \in Slots : ServeList(i)
    \/ \E i \in Slots : ServeGarbled(i)
    \/ \E i \in Slots : ServeFailure(i)
    \/ \E i \in Slots : FetchRejects(i)

\* The user signs in and out.
Session ==
    \/ \E u \in Users : Login(u)
    \/ Logout

\* The user fills in and submits the form.
Creating ==
    \/ ChangeField
    \/ SubmitForm
    \/ \E i \in Slots : handleCreateDone(i)
    \/ \E i \in Slots : ServeCreate(i)

\* The user deletes rows of the table.
Deleting ==
    \/ \E i \in 1..MaxId : ClickDelete(i)
    \/ \E i \in Slots : handleDeleteDone(i)
    \/ \E i \in Slots : ServeDelete(i)

\* A session in which the user signs in and out and reloads the list.
NextLoad == Loading \/ Session \/ ClickRefresh
SpecLoad == Init /\ [][NextLoad]_vars

\* A session in which the user works with the form: one profile, one token,
\* and an API that answers or refuses.
NextCreate ==
    \/ AuthInitialised(PlainUser)
    \/ RunEffect
    \/ \E i \in 1..MaxTokenCalls : TokenResolved(i, UserToken)
    \/ \E i \in Slots : fetchViagensDone(i)
    \/ \E i \in Slots : ServeList(i)
    \/ \E i \in Slots : ServeGarbled(i)
    \/ \E i \in Slots : ServeFailure(i)
    \/ \E i \in Slots : FetchRejects(i)
    \/ Creating
SpecCreate == Init /\ [][NextCreate]_vars

\* A session in which the user deletes trips; handleDelete is open to any
\* caller as well as to the buttons of the rows.
NextDelete == Loading \/ Deleting \/ \E id \in Ids : CallHandleDelete(id)
SpecDelete == Init /\ [][NextDelete]_vars

\* A session of an administrator who reloads the list and deletes trips,
\* with an API that answers every request with what it did.
NextSync ==
    \/ AuthInitialised(AdminUser)
    \/ RunEffect
    \/ \E i \in 1..MaxTokenCalls : TokenResolved(i, AdminToken)
    \/ \E i \in Slots : fetchViagensDone(i)
    \/ \E i \in Slots : ServeCollection(i)
    \/ ClickRefresh
    \/ Deleting
SpecSync == Init /\ [][NextSync]_vars

\* A session in which token retrievals succeed or fail while the user fills
\* in the form.
NextRetrieve ==
    \/ AuthInitialised(PlainUser)
    \/ RunEffect
    \/ \E i \in 1..MaxTokenCalls : TokenResolved(i, UserToken)
    \/ \E i \in 1..MaxTokenCalls : TokenRejected(i)
    \/ \E i \in Slots : fetchViagensDone(i)
    \/ \E i \in Slots : ServeCollection(i)
    \/ ChangeField
SpecRetrieve == Init /\ [][NextRetrieve]_vars

\* A session left to itself after the identity provider has reported: no
\* user action. React runs a pending effect, every token retrieval settles,
\* the API answers every request and every response is handled.
SpecSettle ==
    /\ Init
    /\ [][Loading]_vars
    /\ WF_vars(RunEffect)
    /\ \A i \in 1..MaxTokenCalls :
           WF_vars((\E t \in Tokens : TokenResolved(i, t)) \/ TokenRejected(i))
    /\ \A i \in Slots :
           /\ WF_vars(ServeList(i) \/ ServeGarbled(i) \/ ServeFailure(i) \/ FetchRejects(i))
           /\ WF_vars(fetchViagensDone(i))

(***************************************************************************)
(* The decoder and the role extractor on their own: each is applied once   *)
(* to an input drawn from a bounded set.                                   *)
(***************************************************************************)
\* The longest payload segment among the enumerated tokens.
MaxPayloadLen == 3

Range(seq) == {seq[i] : i \in 1..Len(seq)}

RECURSIVE TextsUpTo(_, _)
TextsUpTo(alphabet, n) ==
    IF n = 0 THEN {<<>>}
    ELSE LET shorter == TextsUpTo(alphabet, n - 1)
         IN  shorter \cup {Append(t, c) : t \in shorter, c \in alphabet}

\* JSON.stringify of a value built from objects, arrays, strings without
\* escapes, numbers, true, false and null.
RECURSIVE Stringify(_)
RECURSIVE StringifyAll(_, _, _)
StringifyAll(keys, vals, i) ==
    IF i > Len(vals) THEN <<>>
    ELSE (IF i > 1 THEN <<",">> ELSE <<>>)
         \o (IF keys = <<>> THEN <<>> ELSE <<"\"">> \o keys[i] \o <<"\"", ":">>)
         \o Stringify(vals[i])
         \o StringifyAll(keys, vals, i + 1)
Stringify(v) ==
    CASE v.t = "obj" -> <<"{">> \o StringifyAll(v.k, v.a, 1) \o <<"}">>
      [] v.t = "arr" -> <<"[">> \o StringifyAll(<<>>, v.a, 1) \o <<"]">>
      [] v.t = "str" -> <<"\"">> \o v.s \o <<"\"">>
      [] v.t = "num" -> v.s
      [] v.t = "true" -> <<"t", "r", "u", "e">>
      [] v.t = "false" -> <<"f", "a", "l", "s", "e">>
      [] OTHER -> <<"n", "u", "l", "l">>

\* The UTF-8 bytes of text whose characters are below U+0800.
CodeUnit(c) == CHOOSE u \in 0..2047 : CharOf(u) = c
Utf8Encode(text) ==
    LET units == [i \in 1..Len(text) |-> CodeUnit(text[i])]
        wides == {i \in 1..Len(text) : units[i] >= 128}
        at == [i \in 1..Len(text) |-> i + Cardinality({j \in wides : j < i})]
        of(p) == CHOOSE i \in 1..Len(text) : at[i] = p \/ (i \in wides /\ at[i] + 1 = p)
    IN  [p \in 1..(Len(text) + Cardinality(wides)) |->
            IF units[of(p)] < 128 THEN units[of(p)]
            ELSE IF at[of(p)] = p THEN 192 + (units[of(p)] \div 64)
            ELSE 128 + (units[of(p)] % 64)]

\* base64url without padding (RFC 7515): "-" and "_" for "+" and "/".
Base64UrlChar(n) ==
    IF n = 62 THEN "-" ELSE IF n = 63 THEN "_" ELSE B64Chars[n + 1]
Base64Url(bytes) ==
    LET b(i) == IF i <= Len(bytes) THEN bytes[i] ELSE 0
        n == ((Len(bytes) * 8) + 5) \div 6
    IN  [p \in 1..n |->
            LET g == 3 * ((p - 1) \div 4)
            IN  CASE p % 4 = 1 -> Base64UrlChar(b(g + 1) \div 4)
                  [] p % 4 = 2 -> Base64UrlChar(((b(g + 1) % 4) * 16) + (b(g + 2) \div 16))
                  [] p % 4 = 3 -> Base64UrlChar(((b(g + 2) % 16) * 4) + (b(g + 3) \div 64))
                  [] OTHER -> Base64UrlChar(b(g + 3) % 64)]

\* The three-segment token whose payload segment encodes claims.
TokenOf(claims) ==
    <<"h", ".">> \o Base64Url(Utf8Encode(Stringify(claims))) \o <<".", "s">>

Text_roles == <<"r", "o", "l", "e", "s">>
Text_user == <<"u", "s", "e", "r">>
Text_sub == <<"s", "u", "b">>

SampleClaims ==
    { JObj(<<>>, <<>>),
      JObj(<<Text_roles>>, <<JArr(<<JStr(ADMIN_ROLE)>>)>>),
      JObj(<<Text_roles>>, <<JArr(<<JStr(Text_user), JStr(ADMIN_ROLE)>>)>>),
      JObj(<<ROLE_NAMESPACE, Text_sub>>,
           <<JArr(<<JStr(ADMIN_ROLE)>>), JStr(<<"J", "o", "s", "U+233">>)>>),
      JObj(<<Text_sub, <<"e", "x", "p">>, <<"o", "k">>, <<"n">>, <<"o">>>>,
           <<JStr(<<"a", "|", "b", " ", "c">>), JNum(<<"1", "7", "0", "0">>),
             JTrue, JNull, JObj(<<Text_roles>>, <<JFalse>>)>>) }

PayloadAlphabet == {"e", "3", "0", "M", "Q", "w", "-", "_", "=", "!", " "}
PayloadTexts == TextsUpTo(PayloadAlphabet, MaxPayloadLen)

\* The inputs of the decoder: tokens that encode claims (wf, with the claims
\* as obj), texts with any payload segment, texts with no payload segment,
\* and values that are no text.
DecodeInputs ==
    {[tok |-> JStr(TokenOf(c)), wf |-> TRUE, obj |-> c] : c \in SampleClaims}
    \cup {[tok |-> JStr(h \o <<".">> \o p \o t), wf |-> FALSE, obj |-> JUndefined] :
            h \in {<<>>, <<"h">>}, p \in PayloadTexts,
            t \in {<<>>, <<".">>, <<".", "s">>}}
    \cup {[tok |-> v, wf |-> FALSE, obj |-> JUndefined] :
            v \in {JUndefined, JNull, JStr(<<>>), JStr(<<"h">>), JStr(<<"h", "e", "3", "0">>),
                   JNum(<<"5">>), JTrue, JObj(<<>>, <<>>)}}

InitDecode ==
    /\ InitApp
    /\ decIn \in DecodeInputs
    /\ decOut = [done |-> FALSE, raised |-> FALSE, value |-> JUndefined]
    /\ exToken = JUndefined
    /\ exUser = JUndefined
    /\ exOut = [done |-> FALSE, set |-> <<>>, swapped |-> <<>>]

\* A caller calls decodeJwtPayload.
CallDecode ==
    /\ ~decOut.done
    /\ decOut' = [done |-> TRUE,
                  raised |-> decodeJwtPayload(decIn.tok).raised,
                  value |-> decodeJwtPayload(decIn.tok).value]
    /\ UNCHANGED <<uiVars, authVars, envVars, last, decIn, exToken, exUser, exOut>>

SpecDecode == InitDecode /\ [][CallDecode]_vars

\* The candidate sources of roles: an object holds, under each recognised
\* key and under one that is not recognised, nothing, a string, or an array.
ClaimValues ==
    {JUndefined, JStr(ADMIN_ROLE), JArr(<<JStr(ADMIN_ROLE)>>),
     JArr(<<JStr(Text_user), JStr(ADMIN_ROLE)>>),
     JArr(<<JStr(Text_user), JStr(Text_user)>>)}

Text_permissions == <<"p", "e", "r", "m", "i", "s", "s", "i", "o", "n", "s">>

\* The object with the properties of keys whose value is not undefined.
RECURSIVE ObjectOf(_, _, _)
ObjectOf(keys, vals, i) ==
    IF i > Len(keys) THEN JObj(<<>>, <<>>)
    ELSE LET rest == ObjectOf(keys, vals, i + 1)
         IN  IF vals[i] = JUndefined THEN rest
             ELSE JObj(<<keys[i]>> \o rest.k, <<vals[i]>> \o rest.a)

RoleSources ==
    {ObjectOf(<<Text_permissions>> \o ROLE_CLAIM_KEYS, <<v0, v1, v2, v3>>, 1) :
        v0 \in {JUndefined, JArr(<<JStr(ADMIN_ROLE)>>)},
        v1 \in ClaimValues, v2 \in ClaimValues, v3 \in ClaimValues}
    \cup {JUndefined, JNull, JStr(ADMIN_ROLE), JArr(<<JStr(ADMIN_ROLE)>>)}

InitRoles ==
    /\ InitApp
    /\ decIn = JUndefined
    /\ decOut = [done |-> FALSE, raised |-> FALSE, value |-> JUndefined]
    /\ exToken \in RoleSources
    /\ exUser \in RoleSources
    /\ exOut = [done |-> FALSE, set |-> <<>>, swapped |-> <<>>]

\* The roles memo is computed for a payload and a profile, and for the two
\* the other way round.
ComputeRoles ==
    /\ ~exOut.done
    /\ exOut' = [done |-> TRUE,
                 set |-> rolesOf(exToken, exUser),
                 swapped |-> rolesOf(exUser, exToken)]
    /\ UNCHANGED <<uiVars, authVars, envVars, last, decIn, decOut, exToken, exUser>>

SpecRoles == InitRoles /\ [][ComputeRoles]_vars

(***************************************************************************)
(* The properties                                                          *)
(***************************************************************************)
\* The claims each token of the identity provider carries in its payload.
ClaimsOfToken ==
    [t \in Tokens \cup {<<>>} |->
        IF t = AdminToken THEN JObj(<<Text_roles>>, <<JArr(<<JStr(ADMIN_ROLE)>>)>>)
        ELSE IF t = UserToken THEN JObj(<<Text_roles>>, <<JArr(<<JStr(Text_user)>>)>>)
        ELSE JNull]

\* The union of the array values a source holds under the recognised keys.
ClaimedRoles(source) ==
    IF source.t # "obj" THEN {}
    ELSE UNION {Range(source.a[i].a) :
                  i \in {j \in 1..Len(source.k) :
                           /\ source.k[j] \in Range(ROLE_CLAIM_KEYS)
                           /\ source.a[j].t = "arr"}}

AdminExpected ==
    JStr(ADMIN_ROLE) \in ClaimedRoles(ClaimsOfToken[token]) \cup ClaimedRoles(user)

\* Request i is of this kind, has its response, and this step handles it.
Completes(i, kind, op) ==
    /\ last'.op = op
    /\ requests[i].kind = kind
    /\ requests[i].resp.done
    /\ requests' = RemoveAt(requests, i)

\* C1, as claimed: in every state of the authenticated view the delete
\* control, the actions column and the administrator badge are present if
\* and only if "admin" is among the roles of the token payload and the
\* profile.
C1_AdminElementsIffAdmin ==
    View = "app" =>
        /\ AdminPillShown <=> AdminExpected
        /\ ActionsColumnShown <=> AdminExpected
        /\ (\E i \in 1..Len(viagens) : DeleteControlShown(i)) <=> AdminExpected

\* C1, amended: in the authenticated view the badge is present if and only
\* if "admin" is among the roles; the actions column, and the delete control
\* of every displayed trip, are present if and only if "admin" is among the
\* roles and the table is rendered (no load in progress, a list that is not
\* empty).
C1_AdminElementsWhenTableRendered ==
    View = "app" =>
        /\ AdminPillShown <=> AdminExpected
        /\ ActionsColumnShown <=> (AdminExpected /\ ~loading /\ viagens # <<>>)
        /\ \A i \in 1..Len(viagens) : DeleteControlShown(i) <=> (AdminExpected /\ ~loading)

C1_Witness ==
    /\ View = "app" /\ AdminExpected /\ AdminPillShown
    /\ ActionsColumnShown /\ DeleteControlShown(1)

\* The DELETE requests among the requests in flight.
DeleteRequests(reqs) == {i \in 1..Len(reqs) : reqs[i].kind = "delete"}

\* C2: a DELETE request is issued only by handleDelete and only when
\* "admin" is among the roles as it is invoked; invoked by a caller who is
\* no administrator, handleDelete issues no request and leaves the list,
\* the error message and deletingId as they are.
C2_DeleteGatedOnAdmin ==
    [][/\ (last'.op = "handleDelete" /\ ~isAdmin) =>
              UNCHANGED <<requests, viagens, error, deletingId>>
       /\ Cardinality(DeleteRequests(requests')) > Cardinality(DeleteRequests(requests)) =>
              (AdminExpected /\ last'.op = "handleDelete")]_vars

C2_Witness ==
    /\ last.op = "handleDelete" /\ ~AdminExpected
    /\ DeleteRequests(requests) = {} /\ viagens # <<>>

\* C3: the role set of a payload and a profile, each possibly absent, is
\* the union of the array values under the three recognised keys of either,
\* each role once; strings and missing keys add nothing, and the two
\* sources the other way round give the same set and the same isAdmin.
C3_RolesAreTheUnion ==
    exOut.done =>
        /\ Range(exOut.set) = ClaimedRoles(exToken) \cup ClaimedRoles(exUser)
        /\ Cardinality(Range(exOut.set)) = Len(exOut.set)
        /\ Range(exOut.swapped) = Range(exOut.set)
        /\ SetHas(exOut.swapped, JStr(ADMIN_ROLE)) <=> SetHas(exOut.set, JStr(ADMIN_ROLE))

C3_Witness ==
    /\ exOut.done /\ exToken.t = "obj" /\ exUser.t = "obj"
    /\ Len(exOut.set) = 2
    /\ Len(extractRolesFromSource(exToken)) >= 3
    /\ Len(extractRolesFromSource(exUser)) >= 3
    /\ exOut.set # exOut.swapped
    /\ \E i \in 1..Len(exUser.a) : exUser.a[i].t = "str"

\* The text between the first "." of a token and the next, if any.
PayloadSegment(text) ==
    LET dots == {i \in 1..Len(text) : text[i] = "."}
        first == CHOOSE i \in dots : \A j \in dots : i <= j
        later == {i \in dots : i > first}
        stop == IF later = {} THEN Len(text) + 1
                ELSE CHOOSE i \in later : \A j \in later : i <= j
    IN  IF dots = {} THEN <<>> ELSE SubSeq(text, first + 1, stop - 1)

\* A token is malformed: absent or empty, without a payload segment, with a
\* payload segment that atob rejects, or one whose bytes are not the UTF-8
\* text of a JSON value.
Malformed(tok) ==
    \/ ~Truthy(tok)
    \/ tok.t = "str" /\ PayloadSegment(tok.s) = <<>>
    \/ tok.t = "str" /\
         LET bin == atob(ReplaceAll(ReplaceAll(PayloadSegment(tok.s), "-", "+"), "_", "/"))
         IN  \/ ~bin.ok
             \/ ~decodeURIComponent(bin.bytes).ok
             \/ ~JSONparse(decodeURIComponent(bin.bytes).chars).ok

\* C4: decodeJwtPayload never raises to its caller; of a well-formed
\* three-segment token it returns the JSON object the payload segment
\* encodes, and of a malformed input (absent or empty, no payload segment,
\* invalid base64, invalid JSON) it returns null.
C4_DecodeIsTotal ==
    decOut.done =>
        /\ ~decOut.raised
        /\ decIn.wf => decOut.value = decIn.obj
        /\ Malformed(decIn.tok) => decOut.value = JNull

C4_Witness ==
    /\ decOut.done /\ decIn.wf
    /\ decOut.value.t = "obj" /\ Len(decOut.value.k) = 5

\* C5: create submitted with an empty origin, destination or transport
\* mode issues no request, sets the validation message as the error, and
\* leaves the list, the form fields and the submitting flag as they are.
C5_EmptyFieldIsRejected ==
    [][(/\ last'.op = "handleCreate"
        /\ (origem = <<>> \/ destino = <<>> \/ modoTransporte = <<>>)) =>
           /\ requests' = requests
           /\ error' = ValidationMessage
           /\ UNCHANGED <<viagens, formVars, submitting>>]_vars

C5_Witness ==
    /\ last.op = "handleCreate" /\ error = ValidationMessage
    /\ origem # <<>> /\ destino = <<>> /\ modoTransporte # <<>>
    /\ viagens # <<>>

\* C6: a delete request that completes with a failure status leaves the
\* displayed list as it is, sets an error message that holds the status
\* code, and resets deletingId to null.
C6_DeleteFailureKeepsList ==
    [][\A i \in 1..Len(requests) :
          (/\ Completes(i, "delete", "handleDelete.done")
           /\ Outcome(requests[i].resp) = "status") =>
              /\ viagens' = viagens
              /\ Contains(error', ToString(requests[i].resp.status))
              /\ deletingId' = NullId]_vars

C6_Witness ==
    /\ last.op = "handleDelete.done" /\ last.out = "status"
    /\ Contains(error, "403")
    /\ \E i \in 1..Len(viagens) : viagens[i].id = last.id

\* C7: a create request that completes with a failure status sets an error
\* message that holds the status code and the response body, leaves the
\* list and the four form fields as they are, and resets submitting.
C7_CreateFailureKeepsForm ==
    [][\A i \in 1..Len(requests) :
          (/\ Completes(i, "create", "handleCreate.done")
           /\ Outcome(requests[i].resp) = "status") =>
              /\ Contains(error', ToString(requests[i].resp.status))
              /\ Contains(error', requests[i].resp.body.text)
              /\ UNCHANGED <<viagens, formVars>>
              /\ submitting' = FALSE]_vars

C7_Witness ==
    /\ last.op = "handleCreate.done" /\ last.out = "status"
    /\ Contains(error, "500") /\ Contains(error, "Forbidden")
    /\ origem # <<>> /\ destino # <<>> /\ modoTransporte # <<>> /\ descricao # <<>>
    /\ ~submitting

\* C8: a list request that succeeds replaces the displayed list by the
\* response when it is an array and by the empty list when it is not; when
\* it is not, its completion sets no error message.
C8_ListReplacedOrEmptied ==
    [][\A i \in 1..Len(requests) :
          (/\ Completes(i, "list", "fetchViagens.done")
           /\ Outcome(requests[i].resp) \in {"array", "object", "record"}) =>
              /\ viagens' = IF requests[i].resp.body.kind = "array"
                            THEN requests[i].resp.body.items ELSE <<>>
              /\ requests[i].resp.body.kind # "array" => error' = error]_vars

C8_Witness ==
    /\ last.op = "fetchViagens.done" /\ last.out = "object"
    /\ viagens = <<>> /\ error = ErrorNull /\ server # <<>>

\* C9: fetchViagens called with no token, while the token in state is
\* empty, issues no request and leaves loading, the error message and the
\* list as they are; every list request carries a bearer token that is not
\* empty.
C9_NoTokenNoRequest ==
    [][/\ (last'.op = "refresh" /\ token = <<>>) =>
              UNCHANGED <<requests, loading, error, viagens>>
       /\ \A i \in 1..Len(requests') :
              requests'[i].kind = "list" => requests'[i].bearer # <<>>]_vars

C9_Witness ==
    /\ last.op = "refresh" /\ token = <<>> /\ View = "app"
    /\ error # ErrorNull

\* C10: a create request that succeeds puts the record the server returned
\* first in the displayed list, the records displayed before following in
\* their order, and resets the four form fields to empty.
C10_CreatedIsPrepended ==
    [][\A i \in 1..Len(requests) :
          (/\ Completes(i, "create", "handleCreate.done")
           /\ Outcome(requests[i].resp) = "record") =>
              /\ viagens' = <<requests[i].resp.body.items[1]>> \o viagens
              /\ origem' = <<>> /\ destino' = <<>>
              /\ descricao' = <<>> /\ modoTransporte' = <<>>]_vars

C10_Witness ==
    /\ last.op = "handleCreate.done" /\ last.out = "record"
    /\ viagens = <<Trip(3), Trip(1), Trip(2)>>
    /\ origem = <<>> /\ destino = <<>> /\ descricao = <<>> /\ modoTransporte = <<>>

\* The records of a list whose id is not the given one, in their order.
Others(list, id) == SelectSeq(list, LAMBDA viagem : viagem.id # id)

\* C11: a delete request for an identifier that succeeds leaves as the
\* displayed list the list displayed before without the records of that
\* identifier, the other records in their order.
C11_DeletedIsFilteredOut ==
    [][\A i \in 1..Len(requests) :
          (/\ Completes(i, "delete", "handleDelete.done")
           /\ requests[i].resp.net /\ ResOk(requests[i].resp.status)) =>
              viagens' = Others(viagens, requests[i].id)]_vars

C11_Witness ==
    /\ last.op = "handleDelete.done" /\ last.out = "text" /\ last.id = 2
    /\ viagens = <<Trip(1)>> /\ server = <<Trip(1)>>

\* The effect has reset the view for a session that is not authenticated,
\* and the token and the list are as it left them.
ViewReset ==
    /\ ~isAuthenticated
    /\ effectDeps.ran /\ ~effectDeps.isAuthenticated
    /\ token = <<>> /\ viagens = <<>>

\* C12: once the effect has reset the view on the transition to not
\* authenticated, the token stays empty and the list stays empty for as
\* long as the session is not authenticated, whichever of the token
\* retrievals and list requests of the cancelled load complete.
C12_CancelledLoadIsDiscarded ==
    [][(ViewReset /\ ~isAuthenticated') => (token' = <<>> /\ viagens' = <<>>)]_vars

\* A list load has succeeded: the step just taken was one, or a trip of the
\* initial collection is displayed, which only a list response delivers.
LoadedOnce ==
    \/ last.op = "fetchViagens.done" /\ last.out = "array"
    \/ \E i \in 1..Len(viagens) : viagens[i].id \in 1..InitialTrips

\* Nothing is outstanding: no request, no token retrieval, no effect to run.
Quiescent == requests = <<>> /\ tokenCalls = <<>> /\ ~EffectPending

\* C14: with a collection that only this client's requests change and
\* responses that report what the server did, once a list load has
\* succeeded the set of displayed trips is the server's collection in every
\* state of the authenticated view with nothing outstanding, also after a
\* list refresh that overlapped a create or a delete.
C14_DisplayedIsServerCollection ==
    (View = "app" /\ LoadedOnce /\ Quiescent) => Range(viagens) = Range(server)

\* C13: for every identifier with a delete request outstanding, the delete
\* control of the row of that identifier is disabled, from the start of the
\* request until that request completes, whatever other deletes start or
\* complete meanwhile.
C13_EveryDeleteInFlightIsDisabled ==
    \A r \in DeleteRequests(requests) :
        \A i \in 1..Len(viagens) :
            (DeleteControlShown(i) /\ viagens[i].id = requests[r].id) =>
                DeleteControlDisabled(i)

\* The list requests among the requests in flight.
ListRequests(reqs) == {i \in 1..Len(reqs) : reqs[i].kind = "list"}

\* C15: in every state the loading flag is true exactly when a list request
\* is outstanding, also when list requests overlap, and whether a request
\* ended in success or in failure.
C15_LoadingIffListOutstanding ==
    loading <=> (ListRequests(requests) # {})

\* The authenticated view at rest: nothing loading, no token retrieval and
\* no list request outstanding.
AuthenticatedReady ==
    /\ isAuthenticated /\ ~loading
    /\ tokenCalls = <<>> /\ ListRequests(requests) = {}

\* C16: once the session is authenticated and the user does nothing, if
\* every token retrieval and every request completes, the component reaches
\* the authenticated view at rest and stays in it, whichever tokens the
\* identity provider returns.
C16_SettlesAfterSignIn ==
    isAuthenticated ~> []AuthenticatedReady

\* C17: a token retrieval that fails leaves the token held, the list and
\* the form fields as they are, sets the token-failure message as the
\* error, and the load that asked for the token issues no request.
C17_TokenFailureKeepsState ==
    [][(last'.op = "refreshToken" /\ last'.out = "rejected") =>
           /\ UNCHANGED <<token, viagens, formVars>>
           /\ error' = TokenErrorMessage
           /\ requests' = requests]_vars

C17_Witness ==
    /\ last.op = "refreshToken" /\ last.out = "rejected"
    /\ token = UserToken /\ viagens # <<>> /\ error = TokenErrorMessage
    /\ origem # <<>> /\ descricao # <<>>

\* The POST requests among the requests in flight.
CreateRequests(reqs) == {i \in 1..Len(reqs) : reqs[i].kind = "create"}

\* C18: every POST request carries an origemNome, a destinoNome and a
\* modoTransporte that are not empty, whatever the form fields held (white
\* space only included), and a descricao that is null or a trimmed string
\* that is not empty.
C18_CreateBodyIsComplete ==
    \A i \in CreateRequests(requests) :
        LET dto == requests[i].dto
        IN  /\ dto.origemNome # <<>>
            /\ dto.destinoNome # <<>>
            /\ dto.modoTransporte # <<>>
            /\ \/ dto.descricao = JNull
               \/ /\ dto.descricao.t = "str"
                  /\ dto.descricao.s # <<>>
                  /\ Trim(dto.descricao.s) = dto.descricao.s

\* C19: no POST and no DELETE request is issued while the token in state is
\* empty: every request in flight carries a bearer token that is not empty.
C19_EveryRequestBearsAToken ==
    \A i \in 1..Len(requests) : requests[i].bearer # <<>>

====
